---- MODULE Spec2Model ----
(***************************************************************************)
(* Batch of frames (src/src/batch.rs): the frame-boundary scanner          *)
(* Batch::scan, the lazy frame iterator Batch::next, the per-object        *)
(* indexer Batch::index and the reduction dispatcher Batch::reduce_all.    *)
(*                                                                         *)
(* Text is a sequence of one-character strings.  Offsets are 0-based as in *)
(* the source; At(s, pos) is s.get(pos..pos + 1).                          *)
(***************************************************************************)
EXTENDS Integers, Sequences, FiniteSets, TLC

(***************************************************************************)
(* Bounds of the checked instance.                                         *)
(***************************************************************************)
\* longest input text built from lexical pieces, in pieces
MaxPieces == 4
\* longest input text built from whole frames, in frames
MaxFrames == 3

(***************************************************************************)
(* Option<T>                                                               *)
(***************************************************************************)
None == [tag |-> "None"]
Some(v) == [tag |-> "Some", val |-> v]

(***************************************************************************)
(* Strings                                                                 *)
(***************************************************************************)
\* s.get(pos..pos + 1): the character at byte offset pos, None past the end
At(s, pos) == IF pos < Len(s) THEN Some(s[pos + 1]) ELSE None

\* &s[from..]
SliceFrom(s, from) == SubSeq(s, from + 1, Len(s))

\* &s[..to]
SliceTo(s, to) == SubSeq(s, 1, to)

RECURSIVE Flatten(_)
Flatten(ss) == IF ss = <<>> THEN <<>> ELSE Head(ss) \o Flatten(SliceFrom(ss, 1))

Digits == {"0", "1", "2", "3", "4", "5", "6", "7", "8", "9"}
Letters ==
    {"a", "b", "c", "d", "e", "f", "g", "h", "i", "j", "k", "l", "m",
     "n", "o", "p", "q", "r", "s", "t", "u", "v", "w", "x", "y", "z",
     "A", "B", "C", "D", "E", "F", "G", "H", "I", "J", "K", "L", "M",
     "N", "O", "P", "Q", "R", "S", "T", "U", "V", "W", "X", "Y", "Z"}

\* char::is_whitespace
is_whitespace(ch) == ch = " "

\* the character test of scan_uuid: a base-36 digit or one of ~_-+%({[)}]
is_uuid_ch(ch) ==
    \/ ch \in Digits \cup Letters
    \/ ch \in {"~", "_", "-", "+", "%", "(", "{", "[", ")", "}", "]"}

\* Batch::scan_uuid: length of the maximal run of identifier characters
RECURSIVE scan_uuid_from(_, _)
scan_uuid_from(s, ret) ==
    IF ret < Len(s) /\ is_uuid_ch(s[ret + 1])
    THEN scan_uuid_from(s, ret + 1)
    ELSE ret

scan_uuid(s) == scan_uuid_from(s, 0)

(***************************************************************************)
(* The literal scanners of the crate root (not part of batch.rs): each     *)
(* returns the consumed length, or None when no literal is found.          *)
(***************************************************************************)
RECURSIVE digit_run(_, _)
digit_run(s, n) ==
    IF n < Len(s) /\ s[n + 1] \in Digits THEN digit_run(s, n + 1) ELSE n

\* integer literal: an optional sign and at least one digit
scan_for_integer(s) ==
    LET sign == IF At(s, 0) \in {Some("-"), Some("+")} THEN 1 ELSE 0
        n == digit_run(s, sign)
    IN  IF n > sign THEN Some(n) ELSE None

\* float literal: an integer literal, optionally a point and more digits
scan_for_float(s) ==
    LET i == scan_for_integer(s)
    IN  IF i = None THEN None
        ELSE IF At(s, i.val) = Some(".") /\ digit_run(s, i.val + 1) > i.val + 1
             THEN Some(digit_run(s, i.val + 1))
             ELSE i

\* quoted string: the offset of the closing quote
RECURSIVE quote_from(_, _)
quote_from(s, n) ==
    IF n >= Len(s) THEN None
    ELSE IF s[n + 1] = "'" THEN Some(n)
    ELSE quote_from(s, n + 1)

scan_for_string(s) == quote_from(s, 0)

\* Option::unwrap_or
unwrap_or(o, d) == IF o = None THEN d ELSE o.val

(***************************************************************************)
(* Batch::scan                                                             *)
(***************************************************************************)
\* enum Scan, with the rank the match arms of the header loop encode
Rank(state) ==
    CASE state = "Initial" -> 0
      [] state = "SawType" -> 1
      [] state = "SawObject" -> 2
      [] state = "SawEvent" -> 3
      [] state = "SawLoc" -> 4

\* the state a header marker leads to
MarkerState(ch) ==
    CASE ch = "*" -> "SawType"
      [] ch = "#" -> "SawObject"
      [] ch = "@" -> "SawEvent"
      [] ch = ":" -> "SawLoc"

Markers == {"*", "#", "@", ":"}

\* the inner "spec" loop: consumes one header group from pos on; yields the
\* position and the state at the break
RECURSIVE HeaderLoop(_, _, _)
HeaderLoop(s, pos, state) ==
    LET c == At(s, pos)
    IN  IF c = None THEN [pos |-> pos, state |-> state]
        ELSE IF c.val \in Markers /\ Rank(state) < Rank(MarkerState(c.val))
        THEN HeaderLoop(s, pos + scan_uuid(SliceFrom(s, pos + 1)) + 1, MarkerState(c.val))
        ELSE IF is_whitespace(c.val) THEN HeaderLoop(s, pos + 1, state)
        ELSE [pos |-> pos, state |-> state]

\* the inner "atoms" loop: "ret" at a frame terminator, "none" on an
\* unexpected character or the end of the text, "group" at the break that
\* goes round the outer loop
RECURSIVE AtomLoop(_, _)
AtomLoop(s, pos) ==
    LET c == At(s, pos)
    IN  IF c = None THEN [kind |-> "none", pos |-> pos]
        ELSE CASE c.val = "=" ->
                    AtomLoop(s, pos + unwrap_or(scan_for_integer(SliceFrom(s, pos + 1)), 0) + 1)
               [] c.val = "^" ->
                    AtomLoop(s, pos + unwrap_or(scan_for_float(SliceFrom(s, pos + 1)), 0) + 1)
               [] c.val = ">" ->
                    AtomLoop(s, pos + scan_uuid(SliceFrom(s, pos + 1)) + 1)
               [] c.val = "'" ->
                    AtomLoop(s, pos + unwrap_or(scan_for_string(SliceFrom(s, pos + 1)), 0) + 2)
               [] c.val \in {"?", ","} -> [kind |-> "group", pos |-> pos + 1]
               [] c.val \in {"!", ";"} -> [kind |-> "ret", pos |-> pos]
               [] c.val \in Markers -> [kind |-> "group", pos |-> pos]
               [] OTHER ->
                    IF is_whitespace(c.val) THEN AtomLoop(s, pos + 1)
                    ELSE [kind |-> "none", pos |-> pos]

\* the outer loop of scan with start set once, before the loop
RECURSIVE ScanLoop_FirstStart(_, _)
ScanLoop_FirstStart(s, pos) ==
    LET h == HeaderLoop(s, pos, "Initial")
    IN  IF h.state = "Initial" THEN None
        ELSE LET a == AtomLoop(s, h.pos)
             IN  CASE a.kind = "ret" -> Some([start |-> 0, end |-> a.pos + 1])
                   [] a.kind = "none" -> None
                   [] a.kind = "group" -> ScanLoop_FirstStart(s, a.pos)

\* the outer loop of scan, entered with pos
RECURSIVE ScanLoop(_, _)
ScanLoop(s, pos) ==
    LET start == pos
        h == HeaderLoop(s, pos, "Initial")
    IN  IF h.state = "Initial" THEN None
        ELSE LET a == AtomLoop(s, h.pos)
             IN  CASE a.kind = "ret" -> Some([start |-> start, end |-> a.pos + 1])
                   [] a.kind = "none" -> None
                   [] a.kind = "group" -> ScanLoop(s, a.pos)

scan(s) == ScanLoop(s, 0)

\* Option<Range>::map(|x| (x.start + by)..(x.end + by))
Shift(r, by) ==
    IF r = None THEN None
    ELSE Some([start |-> r.val.start + by, end |-> r.val.end + by])

(***************************************************************************)
(* Input texts.  A text is either a sequence of at most MaxPieces lexical  *)
(* pieces or a sequence of at most MaxFrames whole frames.                 *)
(***************************************************************************)
Pieces ==
    { <<"*", "a">>, <<"#", "x">>, <<"=", "1">>, <<",">>, <<"!">>, <<".">>,
      <<" ">>, <<"$">> }

lww == <<"l", "w", "w">>
set == <<"s", "e", "t">>
rga == <<"r", "g", "a">>

FrameTexts ==
    { <<"*">> \o lww \o <<"#", "x", "!">>,
      <<"*">> \o lww \o <<"#", "x", "=", "1", ";">>,
      <<"*">> \o set \o <<"#", "y", "!">>,
      <<"*">> \o set \o <<"#", "y", ";">>,
      <<"*">> \o rga \o <<"#", "x", "!">>,
      <<"*">> \o rga \o <<"#", "x", "'", "v", "'", ";", " ">>,
      <<"*">> \o rga \o <<"#", "y", ",", "@", "1", ";">>,
      <<".">> }

SeqsUpTo(S, n) == UNION { [1..k -> S] : k \in 0..n }

Texts ==
    { Flatten(ps) : ps \in SeqsUpTo(Pieces, MaxPieces) }
        \cup { Flatten(fs) : fs \in SeqsUpTo(FrameTexts, MaxFrames) }

\* the characters of the texts scan is followed through step by step
Chars == {"*", "#", "@", ":", "a", " ", "=", ",", "?", "!", "$"}

\* longest text scan is followed through, in characters
MaxChars == 4

ScanTexts == SeqsUpTo(Chars, MaxChars)

(***************************************************************************)
(* State                                                                   *)
(***************************************************************************)
VARIABLES
    src,      \* the text handed to Batch::parse
    cow,      \* whether it was handed over as Cow::Borrowed or Cow::Owned
    pc,       \* "new", "iter", "indexed" or "reduced"
    batch,    \* struct Batch: body and next
    ret,      \* what the last call of Batch::next returned
    yielded,  \* the frames Batch::next has returned so far, in order
    index,    \* what Batch::index returned (in reduce_all: its local index)
    sink,     \* reduce_all: its result, the bytes written and the event log
    scanner   \* a call of Batch::scan(src) in progress: its locals and result

vars == <<src, cow, pc, batch, ret, yielded, index, sink, scanner>>

(***************************************************************************)
(* struct Batch { body: Cow<str>, next: Option<Range<usize>> }             *)
(* A borrowed body is a view [off, off + len) of src; an owned body holds  *)
(* its own characters.                                                     *)
(***************************************************************************)
Borrowed(off, len) == [cow |-> "Borrowed", off |-> off, len |-> len]
Owned(s) == [cow |-> "Owned", s |-> s]

\* Deref of Cow<str>: the characters of the body
Str(body) ==
    IF body.cow = "Borrowed"
    THEN SubSeq(src, body.off + 1, body.off + body.len)
    ELSE body.s

\* s.into(): the Cow a text arrives as
Into(s, c) == IF c = "Borrowed" THEN Borrowed(0, Len(s)) ELSE Owned(s)

\* Frame::parse keeps the text it is given as the frame's body
Frame(s) == [body |-> s]

\* Batch::parse without the second scan: the span of the first frame is
\* kept as the pending span even when it starts at offset 0
parse_NoLookahead(s, c) == [body |-> Into(s, c), next |-> scan(s)]

\* Batch::parse with the second span shifted one too far
parse_ShiftOffByOne(s, c) ==
    LET n == scan(s)
    IN  [body |-> Into(s, c),
         next |-> IF n # None /\ n.val.start = 0
                  THEN Shift(scan(SliceFrom(s, n.val.end)), n.val.end + 1)
                  ELSE n]

\* Batch::parse that scans again whatever the start of the first span
parse_AlwaysLookahead(s, c) ==
    LET n == scan(s)
    IN  [body |-> Into(s, c),
         next |-> IF n # None
                  THEN Shift(scan(SliceFrom(s, n.val.end)), n.val.end)
                  ELSE n]

\* Batch::parse
parse(s, c) ==
    LET b == Into(s, c)
        n == scan(s)
    IN  [body |-> b,
         next |-> IF n # None /\ n.val.start = 0
                  THEN Shift(scan(SliceFrom(s, n.val.end)), n.val.end)
                  ELSE n]

\* the advance of the body with the owned string left untrimmed
DropPrefix_OwnedUntrimmed(body, start) ==
    IF body.cow = "Borrowed"
    THEN Borrowed(body.off + start, body.len - start)
    ELSE body

\* the body after the consumed prefix 0..start is dropped: a re-slice of a
\* borrowed view, String::replace_range on an owned one
DropPrefix(body, start) ==
    IF body.cow = "Borrowed"
    THEN Borrowed(body.off + start, body.len - start)
    ELSE Owned(SliceFrom(body.s, start))

\* Iterator::next that tests is_empty alone and not starts_with(".")
BatchNext_NoSentinel(b) ==
    LET s == Str(b.body)
    IN  IF s = <<>>
        THEN [item |-> None, batch |-> b]
        ELSE LET p == b.next
                 end == IF p = None THEN Len(s) ELSE p.val.start
                 frm == Frame(SliceTo(s, end))
             IN  IF p # None
                 THEN [item |-> Some(frm),
                       batch |->
                         [body |-> DropPrefix(b.body, p.val.start),
                          next |-> Shift(scan(SliceFrom(s, p.val.end)),
                                         p.val.end - p.val.start)]]
                 ELSE [item |-> Some(frm),
                       batch |-> [body |-> Owned(<<>>), next |-> None]]

\* Iterator::next that leaves the body in place when no span is pending
BatchNext_NoClear(b) ==
    LET s == Str(b.body)
    IN  IF s = <<>> \/ s[1] = "."
        THEN [item |-> None, batch |-> b]
        ELSE LET p == b.next
                 end == IF p = None THEN Len(s) ELSE p.val.start
                 frm == Frame(SliceTo(s, end))
             IN  IF p # None
                 THEN [item |-> Some(frm),
                       batch |->
                         [body |-> DropPrefix(b.body, p.val.start),
                          next |-> Shift(scan(SliceFrom(s, p.val.end)),
                                         p.val.end - p.val.start)]]
                 ELSE [item |-> Some(frm), batch |-> [b EXCEPT !.next = None]]

\* Iterator::next that clears the body when the scan after the consumed
\* span finds nothing
BatchNext_ClearOnNoSpan(b) ==
    LET s == Str(b.body)
    IN  IF s = <<>> \/ s[1] = "."
        THEN [item |-> None, batch |-> b]
        ELSE LET p == b.next
                 end == IF p = None THEN Len(s) ELSE p.val.start
                 frm == Frame(SliceTo(s, end))
             IN  IF p # None /\ scan(SliceFrom(s, p.val.end)) # None
                 THEN [item |-> Some(frm),
                       batch |->
                         [body |-> DropPrefix(b.body, p.val.start),
                          next |-> Shift(scan(SliceFrom(s, p.val.end)),
                                         p.val.end - p.val.start)]]
                 ELSE [item |-> Some(frm),
                       batch |-> [body |-> Owned(<<>>), next |-> None]]

\* Iterator::next that ends the frame at the end of the pending span
\* and not at its start
BatchNext_FrameToSpanEnd(b) ==
    LET s == Str(b.body)
    IN  IF s = <<>> \/ s[1] = "."
        THEN [item |-> None, batch |-> b]
        ELSE LET p == b.next
                 end == IF p = None THEN Len(s) ELSE p.val.end
                 frm == Frame(SliceTo(s, end))
             IN  IF p # None
                 THEN [item |-> Some(frm),
                       batch |->
                         [body |-> DropPrefix(b.body, p.val.start),
                          next |-> Shift(scan(SliceFrom(s, p.val.end)),
                                         p.val.end - p.val.start)]]
                 ELSE [item |-> Some(frm),
                       batch |-> [body |-> Owned(<<>>), next |-> None]]

\* Iterator::next for Batch: the item returned and the batch afterwards
BatchNext(b) ==
    LET s == Str(b.body)
    IN  IF s = <<>> \/ s[1] = "."
        THEN [item |-> None, batch |-> b]
        ELSE LET p == b.next
                 end == IF p = None THEN Len(s) ELSE p.val.start
                 frm == Frame(SliceTo(s, end))
             IN  IF p # None
                 THEN [item |-> Some(frm),
                       batch |->
                         [body |-> DropPrefix(b.body, p.val.start),
                          next |-> Shift(scan(SliceFrom(s, p.val.end)),
                                         p.val.end - p.val.start)]]
                 ELSE [item |-> Some(frm),
                       batch |-> [body |-> Owned(<<>>), next |-> None]]

(***************************************************************************)
(* Frame::peek of the crate (not part of batch.rs): the header of the      *)
(* frame's first operation, None when the text does not begin with a       *)
(* header.  An identifier is the text of its token; a field the header     *)
(* leaves out is the zero identifier.                                      *)
(***************************************************************************)
Zero == <<"0">>

RECURSIVE skip_ws(_, _)
skip_ws(s, pos) ==
    IF pos < Len(s) /\ is_whitespace(s[pos + 1]) THEN skip_ws(s, pos + 1) ELSE pos

\* the identifier after the marker at pos
Token(s, pos) ==
    LET n == scan_uuid(SliceFrom(s, pos + 1))
    IN  IF n = 0 THEN Zero ELSE SubSeq(s, pos + 2, pos + 1 + n)

peek(frm) ==
    LET s == frm.body
        p0 == skip_ws(s, 0)
        hasTy == At(s, p0) = Some("*")
        p1 == IF hasTy THEN skip_ws(s, p0 + 1 + scan_uuid(SliceFrom(s, p0 + 1))) ELSE p0
        hasObj == At(s, p1) = Some("#")
    IN  IF At(s, p0) = None \/ At(s, p0).val \notin Markers THEN None
        ELSE Some([ty |-> IF hasTy THEN Token(s, p0) ELSE Zero,
                   object |-> IF hasObj THEN Token(s, p1) ELSE Zero])

(***************************************************************************)
(* Batch::index                                                            *)
(***************************************************************************)
\* HashMap::default()
EmptyMap == [k \in {} |-> None]

Put(m, k, v) == [x \in DOMAIN m \cup {k} |-> IF x = k THEN v ELSE m[x]]

\* the loop body without the comparison of types: the frame is pushed
\* under its object whatever type the entry records
IndexOp_NoTypeCheck(idx, op, frm) ==
    LET ent == IF op.object \in DOMAIN idx
               THEN idx[op.object]
               ELSE [ty |-> op.ty, frames |-> <<>>]
    IN  Some(Put(idx, op.object, [ent EXCEPT !.frames = Append(@, frm)]))

\* the loop body with the frame inserted at the front of the list
IndexOp_PushFront(idx, op, frm) ==
    LET ent == IF op.object \in DOMAIN idx
               THEN idx[op.object]
               ELSE [ty |-> op.ty, frames |-> <<>>]
    IN  IF ent.ty = op.ty
        THEN Some(Put(idx, op.object, [ent EXCEPT !.frames = <<frm>> \o @]))
        ELSE None

\* the body of the for loop for one frame with a header: the entry of the
\* object is created with the frame's type when missing, and the frame is
\* pushed when the types agree; None stands for the early return
IndexOp(idx, op, frm) ==
    LET ent == IF op.object \in DOMAIN idx
               THEN idx[op.object]
               ELSE [ty |-> op.ty, frames |-> <<>>]
    IN  IF ent.ty = op.ty
        THEN Some(Put(idx, op.object, [ent EXCEPT !.frames = Append(@, frm)]))
        ELSE None

\* the for loop with a frame that has no header treated as a failure
RECURSIVE IndexLoop_FailOnNoHeader(_, _)
IndexLoop_FailOnNoHeader(b, idx) ==
    LET r == BatchNext(b)
    IN  IF r.item = None THEN Some(idx)
        ELSE LET op == peek(r.item.val)
             IN  IF op = None THEN None
                 ELSE LET i == IndexOp(idx, op.val, r.item.val)
                      IN  IF i = None THEN None
                          ELSE IndexLoop_FailOnNoHeader(r.batch, i.val)

\* for frm in self { ... }
RECURSIVE IndexLoop(_, _)
IndexLoop(b, idx) ==
    LET r == BatchNext(b)
    IN  IF r.item = None THEN Some(idx)
        ELSE LET op == peek(r.item.val)
             IN  IF op = None THEN IndexLoop(r.batch, idx)
                 ELSE LET i == IndexOp(idx, op.val, r.item.val)
                      IN  IF i = None THEN None ELSE IndexLoop(r.batch, i.val)

BatchIndex(b) == IndexLoop(b, EmptyMap)

(***************************************************************************)
(* Batch::reduce_all                                                       *)
(***************************************************************************)
\* LWW::reduce and Set::reduce of the crate (not part of batch.rs):
\* reduce(seed, history) -> optional merged frame.  The outcomes kept are:
\* none, the seed itself, and a merged frame of the history and the seed.
Bodies(frames) == [i \in 1..Len(frames) |-> frames[i].body]

Reduce(s, frames) ==
    { None, Some(s), Some(Frame(Flatten(Bodies(frames)) \o s.body)) }

\* out.write_all(bytes)?: the write succeeds and appends the bytes, or it
\* fails; ev is the event recorded for it
write_all(o, bytes) ==
    { [ok |-> TRUE, out |-> o.out \o bytes,
       ev |-> Append(o.ev, [ev |-> "write", data |-> bytes, ok |-> TRUE])],
      [ok |-> FALSE, out |-> o.out,
       ev |-> Append(o.ev, [ev |-> "write", data |-> bytes, ok |-> FALSE])] }

\* a run of write_all(..)? calls, stopped by the first failure
RECURSIVE write_each(_, _)
write_each(o, datas) ==
    IF datas = <<>> \/ ~o.ok THEN {o}
    ELSE UNION { write_each(w, SliceFrom(datas, 1)) : w \in write_all(o, Head(datas)) }

\* the match with the arm for one frame missing: a single frame of type
\* lww or set goes to its reducer with an empty history
ReduceEntry_SingletonReduced(ty, frames, out) ==
    LET o == [ok |-> TRUE, out |-> out, ev |-> <<>>]
    IN  IF Len(frames) = 0 THEN {o}
        ELSE LET s == frames[Len(frames)]
                 rest == SubSeq(frames, 1, Len(frames) - 1)
                 crdt == IF ty = lww THEN "LWW" ELSE "Set"
             IN  IF ty = lww \/ ty = set
                 THEN UNION {
                        LET c == [o EXCEPT !.ev = Append(@,
                                    [ev |-> "reduce", crdt |-> crdt, seed |-> s,
                                     history |-> rest, state |-> state])]
                        IN  IF state # None THEN write_all(c, state.val.body)
                            ELSE {c}
                        : state \in Reduce(s, rest) }
                 ELSE write_each(o, <<s.body>> \o Bodies(rest))

\* the match with the verbatim fallback writing the history before the seed
ReduceEntry_HistoryFirst(ty, frames, out) ==
    LET o == [ok |-> TRUE, out |-> out, ev |-> <<>>]
    IN  IF Len(frames) = 0 THEN {o}
        ELSE IF Len(frames) = 1 THEN write_all(o, frames[1].body)
        ELSE LET s == frames[Len(frames)]
                 rest == SubSeq(frames, 1, Len(frames) - 1)
                 crdt == IF ty = lww THEN "LWW" ELSE "Set"
             IN  IF ty = lww \/ ty = set
                 THEN UNION {
                        LET c == [o EXCEPT !.ev = Append(@,
                                    [ev |-> "reduce", crdt |-> crdt, seed |-> s,
                                     history |-> rest, state |-> state])]
                        IN  IF state # None THEN write_all(c, state.val.body)
                            ELSE {c}
                        : state \in Reduce(s, rest) }
                 ELSE write_each(o, Bodies(rest) \o <<s.body>>)

\* the match with the first frame of the list taken as the seed
ReduceEntry_SeedFirst(ty, frames, out) ==
    LET o == [ok |-> TRUE, out |-> out, ev |-> <<>>]
    IN  IF Len(frames) = 0 THEN {o}
        ELSE IF Len(frames) = 1 THEN write_all(o, frames[1].body)
        ELSE LET s == frames[1]
                 rest == SubSeq(frames, 2, Len(frames))
                 crdt == IF ty = lww THEN "LWW" ELSE "Set"
             IN  IF ty = lww \/ ty = set
                 THEN UNION {
                        LET c == [o EXCEPT !.ev = Append(@,
                                    [ev |-> "reduce", crdt |-> crdt, seed |-> s,
                                     history |-> rest, state |-> state])]
                        IN  IF state # None THEN write_all(c, state.val.body)
                            ELSE {c}
                        : state \in Reduce(s, rest) }
                 ELSE write_each(o, <<s.body>> \o Bodies(rest))

\* the match on frames.len() for one entry (ty, frames) of the index, with
\* out the bytes written so far: the outcomes, each with the events of
\* this entry
ReduceEntry(ty, frames, out) ==
    LET o == [ok |-> TRUE, out |-> out, ev |-> <<>>]
    IN  IF Len(frames) = 0 THEN {o}
        ELSE IF Len(frames) = 1 THEN write_all(o, frames[1].body)
        ELSE LET s == frames[Len(frames)]
                 rest == SubSeq(frames, 1, Len(frames) - 1)
                 crdt == IF ty = lww THEN "LWW" ELSE "Set"
             IN  IF ty = lww \/ ty = set
                 THEN UNION {
                        LET c == [o EXCEPT !.ev = Append(@,
                                    [ev |-> "reduce", crdt |-> crdt, seed |-> s,
                                     history |-> rest, state |-> state])]
                        IN  IF state # None THEN write_all(c, state.val.body)
                            ELSE {c}
                        : state \in Reduce(s, rest) }
                 ELSE write_each(o, <<s.body>> \o Bodies(rest))

\* the loop with the result of the writes of an entry ignored
RECURSIVE ReduceLoop_IgnoreFailure(_, _, _)
ReduceLoop_IgnoreFailure(idx, keys, st) ==
    IF keys = {} THEN { [st EXCEPT !.res = "Ok"] }
    ELSE UNION {
           UNION {
             ReduceLoop_IgnoreFailure(idx, keys \ {k},
                [st EXCEPT !.out = e.out,
                           !.log = Append(@, [key |-> k, ev |-> e.ev])])
             : e \in ReduceEntry(idx[k].ty, idx[k].frames, st.out) }
           : k \in keys }

\* for (_, (ty, frames)) in index { ... }  Ok(()): the entries are taken
\* in any order, and a failed write returns at once
RECURSIVE ReduceLoop(_, _, _)
ReduceLoop(idx, keys, st) ==
    IF keys = {} THEN { [st EXCEPT !.res = "Ok"] }
    ELSE UNION {
           UNION {
             LET st2 == [st EXCEPT !.out = e.out,
                                   !.log = Append(@, [key |-> k, ev |-> e.ev])]
             IN  IF e.ok THEN ReduceLoop(idx, keys \ {k}, st2)
                 ELSE { [st2 EXCEPT !.res = "Err(write)"] }
             : e \in ReduceEntry(idx[k].ty, idx[k].frames, st.out) }
           : k \in keys }

NoSink == [res |-> "none", out |-> <<>>, log |-> <<>>]

\* reduce_all with a failed index taken for an empty one
reduce_all_IndexUnchecked(b) ==
    LET i == BatchIndex(b)
    IN  IF i = None THEN ReduceLoop(EmptyMap, {}, NoSink)
        ELSE ReduceLoop(i.val, DOMAIN i.val, NoSink)

reduce_all(b) ==
    LET i == BatchIndex(b)
    IN  IF i = None THEN { [NoSink EXCEPT !.res = "Err(indexing failed)"] }
        ELSE ReduceLoop(i.val, DOMAIN i.val, NoSink)

(***************************************************************************)
(* The state machine                                                       *)
(***************************************************************************)
NotCalled == [tag |-> "NotCalled"]

\* no call of scan is being followed
Idle == [phase |-> "idle", pos |-> 0, start |-> 0, state |-> "Initial",
         ret |-> NotCalled]

Init ==
    /\ src \in Texts
    /\ cow \in {"Borrowed", "Owned"}
    /\ pc = "new"
    /\ batch = None
    /\ ret = NotCalled
    /\ yielded = <<>>
    /\ index = NotCalled
    /\ sink = NoSink
    /\ scanner = Idle

\* Batch::parse(src)
Parse ==
    /\ pc = "new"
    /\ batch' = parse(src, cow)
    /\ pc' = "iter"
    /\ UNCHANGED <<src, cow, ret, yielded, index, sink, scanner>>

\* one call of Batch::next by the owner of the batch
Next1 ==
    /\ pc = "iter"
    /\ LET r == BatchNext(batch)
       IN  /\ batch' = r.batch
           /\ ret' = r.item
           /\ yielded' = IF r.item = None THEN yielded
                         ELSE Append(yielded, r.item.val)
    /\ UNCHANGED <<src, cow, pc, index, sink, scanner>>

\* Batch::index(self), called on a batch that has not been advanced: the
\* batch is moved into the call
Index ==
    /\ pc = "iter"
    /\ ret = NotCalled
    /\ index' = BatchIndex(batch)
    /\ pc' = "indexed"
    /\ UNCHANGED <<src, cow, batch, ret, yielded, sink, scanner>>

\* Batch::reduce_all(self, out), called on a batch that has not been
\* advanced: the batch is moved into the call; index is the local of
\* that name
ReduceAll ==
    /\ pc = "iter"
    /\ ret = NotCalled
    /\ index' = BatchIndex(batch)
    /\ sink' \in reduce_all(batch)
    /\ pc' = "reduced"
    /\ UNCHANGED <<src, cow, batch, ret, yielded, scanner>>

\* the iterator alone: a batch that is parsed and advanced by its owner
IterNext == Parse \/ Next1

(***************************************************************************)
(* Batch::scan(src) followed one loop iteration at a time                  *)
(***************************************************************************)
\* one iteration of the "spec" loop in which a header marker is consumed
\* whatever the state
HeaderStep_AnyOrder(s, pos, state) ==
    LET c == At(s, pos)
    IN  IF c = None THEN [brk |-> TRUE, pos |-> pos, state |-> state]
        ELSE IF c.val \in Markers
        THEN [brk |-> FALSE,
              pos |-> pos + scan_uuid(SliceFrom(s, pos + 1)) + 1,
              state |-> MarkerState(c.val)]
        ELSE IF is_whitespace(c.val)
        THEN [brk |-> FALSE, pos |-> pos + 1, state |-> state]
        ELSE [brk |-> TRUE, pos |-> pos, state |-> state]

\* one iteration of the "spec" loop: the match on (state, s.get(pos..pos+1));
\* brk when the iteration breaks out of the loop
HeaderStep(s, pos, state) ==
    LET c == At(s, pos)
    IN  IF c = None THEN [brk |-> TRUE, pos |-> pos, state |-> state]
        ELSE IF c.val \in Markers /\ Rank(state) < Rank(MarkerState(c.val))
        THEN [brk |-> FALSE,
              pos |-> pos + scan_uuid(SliceFrom(s, pos + 1)) + 1,
              state |-> MarkerState(c.val)]
        ELSE IF is_whitespace(c.val)
        THEN [brk |-> FALSE, pos |-> pos + 1, state |-> state]
        ELSE [brk |-> TRUE, pos |-> pos, state |-> state]

\* one iteration of the "atoms" loop without the arm for "?"
AtomStep_NoQuery(s, pos) ==
    LET c == At(s, pos)
    IN  IF c = None THEN [kind |-> "none", pos |-> pos]
        ELSE CASE c.val = "=" ->
                    [kind |-> "cont",
                     pos |-> pos + unwrap_or(scan_for_integer(SliceFrom(s, pos + 1)), 0) + 1]
               [] c.val = "^" ->
                    [kind |-> "cont",
                     pos |-> pos + unwrap_or(scan_for_float(SliceFrom(s, pos + 1)), 0) + 1]
               [] c.val = ">" ->
                    [kind |-> "cont", pos |-> pos + scan_uuid(SliceFrom(s, pos + 1)) + 1]
               [] c.val = "'" ->
                    [kind |-> "cont",
                     pos |-> pos + unwrap_or(scan_for_string(SliceFrom(s, pos + 1)), 0) + 2]
               [] c.val = "," -> [kind |-> "group", pos |-> pos + 1]
               [] c.val \in {"!", ";"} -> [kind |-> "ret", pos |-> pos]
               [] c.val \in Markers -> [kind |-> "group", pos |-> pos]
               [] OTHER ->
                    IF is_whitespace(c.val) THEN [kind |-> "cont", pos |-> pos + 1]
                    ELSE [kind |-> "none", pos |-> pos]

\* one iteration of the "atoms" loop: the match on s.get(pos..pos+1);
\* "cont" when the loop goes on, "group" at a break that goes round the
\* outer loop, "ret" at a frame terminator, "none" at return None
AtomStep(s, pos) ==
    LET c == At(s, pos)
    IN  IF c = None THEN [kind |-> "none", pos |-> pos]
        ELSE CASE c.val = "=" ->
                    [kind |-> "cont",
                     pos |-> pos + unwrap_or(scan_for_integer(SliceFrom(s, pos + 1)), 0) + 1]
               [] c.val = "^" ->
                    [kind |-> "cont",
                     pos |-> pos + unwrap_or(scan_for_float(SliceFrom(s, pos + 1)), 0) + 1]
               [] c.val = ">" ->
                    [kind |-> "cont", pos |-> pos + scan_uuid(SliceFrom(s, pos + 1)) + 1]
               [] c.val = "'" ->
                    [kind |-> "cont",
                     pos |-> pos + unwrap_or(scan_for_string(SliceFrom(s, pos + 1)), 0) + 2]
               [] c.val \in {"?", ","} -> [kind |-> "group", pos |-> pos + 1]
               [] c.val \in {"!", ";"} -> [kind |-> "ret", pos |-> pos]
               [] c.val \in Markers -> [kind |-> "group", pos |-> pos]
               [] OTHER ->
                    IF is_whitespace(c.val) THEN [kind |-> "cont", pos |-> pos + 1]
                    ELSE [kind |-> "none", pos |-> pos]

\* Batch::scan(src) has been called: let mut pos = 0
InitScan ==
    /\ src \in ScanTexts
    /\ cow = "Borrowed"
    /\ pc = "scan"
    /\ batch = None
    /\ ret = NotCalled
    /\ yielded = <<>>
    /\ index = NotCalled
    /\ sink = NoSink
    /\ scanner = [phase |-> "outer", pos |-> 0, start |-> 0,
                  state |-> "Initial", ret |-> NotCalled]

\* the head of the outer loop: let start = pos; let mut state = Initial
ScanOuter ==
    /\ scanner.phase = "outer"
    /\ scanner' = [scanner EXCEPT !.phase = "spec", !.start = scanner.pos,
                                  !.state = "Initial"]
    /\ UNCHANGED <<src, cow, pc, batch, ret, yielded, index, sink>>

\* one iteration of the "spec" loop and, when it breaks, the test
\* if state == Scan::Initial { return None; }
ScanSpec ==
    /\ scanner.phase = "spec"
    /\ LET h == HeaderStep(src, scanner.pos, scanner.state)
       IN  scanner' =
             IF ~h.brk
             THEN [scanner EXCEPT !.pos = h.pos, !.state = h.state]
             ELSE IF scanner.state = "Initial"
             THEN [scanner EXCEPT !.phase = "done", !.ret = None]
             ELSE [scanner EXCEPT !.phase = "atoms"]
    /\ UNCHANGED <<src, cow, pc, batch, ret, yielded, index, sink>>

\* one iteration of the "atoms" loop
ScanAtom ==
    /\ scanner.phase = "atoms"
    /\ LET a == AtomStep(src, scanner.pos)
       IN  scanner' =
             CASE a.kind = "cont" -> [scanner EXCEPT !.pos = a.pos]
               [] a.kind = "group" -> [scanner EXCEPT !.pos = a.pos, !.phase = "outer"]
               [] a.kind = "ret" ->
                    [scanner EXCEPT !.phase = "done",
                        !.ret = Some([start |-> scanner.start, end |-> a.pos + 1])]
               [] a.kind = "none" -> [scanner EXCEPT !.phase = "done", !.ret = None]
    /\ UNCHANGED <<src, cow, pc, batch, ret, yielded, index, sink>>

ScanNext == ScanOuter \/ ScanSpec \/ ScanAtom

SpecScan == InitScan /\ [][ScanNext]_vars

SpecIter == Init /\ [][IterNext]_vars

Next == Parse \/ Next1 \/ Index \/ ReduceAll

Spec == Init /\ [][Next]_vars

(***************************************************************************)
(* Vocabulary of the properties                                            *)
(***************************************************************************)
\* Batch::next has been called and reported no item
Exhausted == ret = None

\* the text is one the first call of Batch::next ends on: empty, or
\* beginning with the sentinel
Terminal(s) == s = <<>> \/ s[1] = "."

\* the frame of the grammar that begins at p: one or more header groups
\* with their atoms, up to and including the first terminator; its end
\* offset, or -1 when there is none
RECURSIVE FrameEnd(_, _)
FrameEnd(s, p) ==
    LET h == HeaderLoop(s, p, "Initial")
        a == AtomLoop(s, h.pos)
    IN  IF h.state = "Initial" THEN -1
        ELSE CASE a.kind = "ret" -> a.pos + 1
               [] a.kind = "none" -> -1
               [] a.kind = "group" -> FrameEnd(s, a.pos)

\* the number of frames of a text that from p on consists of frames and
\* an optional final sentinel; -1 for any other text
RECURSIVE CountFrames(_, _)
CountFrames(s, p) ==
    LET q == skip_ws(s, p)
        e == FrameEnd(s, p)
        n == CountFrames(s, e)
    IN  IF q = Len(s) \/ (At(s, q) = Some(".") /\ skip_ws(s, q + 1) = Len(s)) THEN 0
        ELSE IF e = -1 \/ n = -1 THEN -1
        ELSE n + 1

\* a text that begins with a frame and consists of well-formed frames,
\* optionally followed by the sentinel
WellFormed(s) == CountFrames(s, 0) >= 1

\* the first frame of the text is a single header group: the group that
\* begins the text is the one its first terminator ends
SingleGroupFirst(s) == AtomLoop(s, HeaderLoop(s, 0, "Initial").pos).kind = "ret"

(***************************************************************************)
(* C1: once Batch::next has reported no item, every later step leaves its  *)
(* report at no item and the body, the pending span and the frames yielded *)
(* unchanged; and a batch parsed from the empty text or from a text that   *)
(* begins with the sentinel "." never reports an item.                     *)
(***************************************************************************)
C1_ExhaustionIsFinal ==
    [][/\ (Exhausted => ret' = None /\ batch' = batch /\ yielded' = yielded)
       /\ (Terminal(src) /\ ret' # NotCalled => ret' = None)]_vars

\* a batch over a text that begins with the sentinel and goes on after it
\* has been advanced
C1_Witness == Exhausted /\ Len(src) >= 2 /\ src[1] = "." /\ yielded = <<>>

(***************************************************************************)
(* C2 as stated: draining a batch over a well-formed text yields exactly   *)
(* as many frames as the text has frame terminators.                       *)
(***************************************************************************)
C2_Original ==
    Exhausted /\ WellFormed(src) => Len(yielded) = CountFrames(src, 0)

(***************************************************************************)
(* C2 as amended: draining a batch over a well-formed text yields as many  *)
(* frames as the text has frame terminators when its first frame is a      *)
(* single header group, and one more when the first frame has several      *)
(* header groups; no frame yielded begins with the sentinel ".".           *)
(***************************************************************************)
C2_FrameCount ==
    Exhausted /\ WellFormed(src) =>
        /\ Len(yielded) =
              CountFrames(src, 0) + (IF SingleGroupFirst(src) THEN 0 ELSE 1)
        /\ \A i \in 1..Len(yielded) :
              yielded[i].body # <<>> /\ yielded[i].body[1] # "."

\* a drained text of two frames and the sentinel whose first frame has
\* several header groups
C2_Witness ==
    /\ Exhausted
    /\ WellFormed(src)
    /\ CountFrames(src, 0) = 2
    /\ ~SingleGroupFirst(src)
    /\ src[Len(src)] = "."
    /\ Len(yielded) = 3

(***************************************************************************)
(* C3: a non-empty text that does not begin with "." and in which scan     *)
(* finds no frame yields exactly one frame, whose raw text is the whole    *)
(* text, and the advance after it reports no item.                         *)
(***************************************************************************)
C3_Unterminated ==
    ~Terminal(src) /\ scan(src) = None =>
        /\ yielded # <<>> => yielded = <<Frame(src)>> /\ Str(batch.body) = <<>>
        /\ Exhausted => Len(yielded) = 1

\* a text of header groups ended only by a comma has been drained
C3_Witness ==
    /\ Exhausted
    /\ Len(src) >= 3
    /\ src[1] = "*"
    /\ src[Len(src)] = ","
    /\ scan(src) = None
    /\ yielded = <<Frame(src)>>

(***************************************************************************)
(* Vocabulary of the properties of index and reduce_all                    *)
(***************************************************************************)
\* the frames the iterator yields from b on, in order
RECURSIVE Drain(_)
Drain(b) ==
    LET r == BatchNext(b)
    IN  IF r.item = None THEN <<>> ELSE <<r.item.val>> \o Drain(r.batch)

HasHeader(f) == peek(f) # None

\* the frames of fs whose first header names object o, in their order
FramesOf(fs, o) ==
    LET Names(f) == HasHeader(f) /\ peek(f).val.object = o
    IN  SelectSeq(fs, Names)

\* the objects the first headers of fs name
ObjectsOf(fs) == { peek(fs[i]).val.object : i \in { j \in 1..Len(fs) : HasHeader(fs[j]) } }

\* frames i < j of fs name the same object with different types
ConflictAt(fs, i, j) ==
    /\ i < j
    /\ HasHeader(fs[i]) /\ HasHeader(fs[j])
    /\ peek(fs[i]).val.object = peek(fs[j]).val.object
    /\ peek(fs[i]).val.ty # peek(fs[j]).val.ty

\* some two frames of fs name the same object with different types
Conflict(fs) ==
    LET hs == [i \in 1..Len(fs) |-> peek(fs[i])]
    IN  \E i, j \in 1..Len(fs) :
           /\ i < j
           /\ hs[i] # None /\ hs[j] # None
           /\ hs[i].val.object = hs[j].val.object
           /\ hs[i].val.ty # hs[j].val.ty

Indexed == pc = "indexed"
Reduced == pc = "reduced"

\* the events of a log entry are writes alone, of the texts datas in
\* order, cut short by the first failed write
WritesOf(e, datas) ==
    /\ Len(e.ev) <= Len(datas)
    /\ \A i \in 1..Len(e.ev) :
          /\ e.ev[i].ev = "write"
          /\ e.ev[i].data = datas[i]
          /\ (i < Len(e.ev) => e.ev[i].ok)
    /\ (Len(e.ev) < Len(datas) => e.ev # <<>> /\ ~e.ev[Len(e.ev)].ok)

\* no write of the log entry failed
AllOk(e) == \A i \in 1..Len(e.ev) : e.ev[i].ev = "write" => e.ev[i].ok

\* the bytes of the successful writes of the log, in order
RECURSIVE Written(_)
Written(evs) ==
    IF evs = <<>> THEN <<>>
    ELSE (IF Head(evs).ev = "write" /\ Head(evs).ok THEN Head(evs).data ELSE <<>>)
            \o Written(SliceFrom(evs, 1))

LogEvents(log) == Flatten([i \in 1..Len(log) |-> log[i].ev])

(***************************************************************************)
(* C4: index returns None whenever two of the frames the iterator yields   *)
(* name the same object in their first header with different types,        *)
(* whatever frames come before, between or after them.                     *)
(***************************************************************************)
C4_ConflictFails == Indexed /\ Conflict(Drain(batch)) => index = None

\* index has failed on a batch of three frames whose first two conflict
\* and whose third names another object
C4_Witness ==
    /\ Indexed
    /\ index = None
    /\ LET fs == Drain(batch)
       IN  /\ Len(fs) = 3
           /\ ConflictAt(fs, 1, 2)
           /\ HasHeader(fs[3])
           /\ peek(fs[3]).val.object # peek(fs[1]).val.object

(***************************************************************************)
(* C5: when index succeeds, its keys are exactly the objects named by the  *)
(* first headers of the yielded frames; each key's list is non-empty and   *)
(* holds exactly the yielded frames that name the object, in the order     *)
(* they were yielded; every frame of the list declares the type recorded   *)
(* for the key, which is the type of the first of them.                    *)
(***************************************************************************)
C5_IndexContents ==
    Indexed /\ index # None =>
        LET idx == index.val
            fs == Drain(batch)
        IN  /\ DOMAIN idx = ObjectsOf(fs)
            /\ \A o \in DOMAIN idx :
                  /\ idx[o].frames # <<>>
                  /\ idx[o].frames = FramesOf(fs, o)
                  /\ idx[o].ty = peek(idx[o].frames[1]).val.ty
                  /\ \A i \in 1..Len(idx[o].frames) :
                        peek(idx[o].frames[i]).val.ty = idx[o].ty

\* an index of two objects, one of them with two different frames
C5_Witness ==
    /\ Indexed
    /\ index # None
    /\ Cardinality(DOMAIN index.val) = 2
    /\ \E o \in DOMAIN index.val :
          /\ Len(index.val[o].frames) = 2
          /\ index.val[o].frames[1] # index.val[o].frames[2]

(***************************************************************************)
(* C6: a yielded frame without a parseable first header is in no list of   *)
(* the index and does not make index fail: index fails only on a type      *)
(* conflict between frames that have headers, and a batch whose frames all *)
(* lack a header (the empty text included) indexes to the empty mapping.   *)
(***************************************************************************)
C6_HeaderlessSkipped ==
    Indexed =>
        LET fs == Drain(batch)
        IN  /\ index # None =>
                  \A o \in DOMAIN index.val :
                     \A i \in 1..Len(index.val[o].frames) :
                        HasHeader(index.val[o].frames[i])
            /\ index = None => Conflict(fs)
            /\ (\A i \in 1..Len(fs) : ~HasHeader(fs[i])) => index = Some(EmptyMap)

\* a batch that yields a frame, none with a header, has been indexed
C6_Witness ==
    /\ Indexed
    /\ Drain(batch) # <<>>
    /\ \A i \in 1..Len(Drain(batch)) : ~HasHeader(Drain(batch)[i])
    /\ index = Some(EmptyMap)

(***************************************************************************)
(* C7: for an indexed object with exactly one frame, reduce_all invokes no *)
(* reducer and its only write is that frame's raw text, whatever the type  *)
(* of the object; when reduce_all succeeds every such object has been      *)
(* written, and the sink holds the bytes of the successful writes.         *)
(***************************************************************************)
C7_SingletonVerbatim ==
    Reduced /\ index # None =>
        LET idx == index.val
        IN  /\ \A n \in 1..Len(sink.log) :
                  LET e == sink.log[n]
                  IN  Len(idx[e.key].frames) = 1 =>
                        /\ WritesOf(e, <<idx[e.key].frames[1].body>>)
                        /\ (n < Len(sink.log) => AllOk(e))
            /\ sink.res = "Ok" =>
                  \A o \in DOMAIN idx :
                     Len(idx[o].frames) = 1 =>
                        \E n \in 1..Len(sink.log) :
                           sink.log[n].key = o /\ AllOk(sink.log[n])
            /\ sink.out = Written(LogEvents(sink.log))

\* reduce_all has succeeded on one object of type lww with a single frame
C7_Witness ==
    /\ Reduced
    /\ sink.res = "Ok"
    /\ index # None
    /\ \E o \in DOMAIN index.val :
          LET ent == index.val[o]
          IN  /\ ent.ty = lww
              /\ Len(ent.frames) = 1
              /\ sink.out = ent.frames[1].body

(***************************************************************************)
(* C8: for an indexed object with two or more frames whose type is neither *)
(* lww nor set, reduce_all invokes no reducer and writes the raw text of   *)
(* the last frame followed by the raw texts of the earlier frames in their *)
(* order; unless one of these writes fails, reduce_all goes on with the    *)
(* remaining objects.                                                      *)
(***************************************************************************)
C8_UnknownTypeVerbatim ==
    Reduced /\ index # None =>
        LET idx == index.val
        IN  \A n \in 1..Len(sink.log) :
               LET e == sink.log[n]
                   frames == idx[e.key].frames
               IN  Len(frames) >= 2 /\ idx[e.key].ty \notin {lww, set} =>
                     /\ WritesOf(e, <<frames[Len(frames)].body>>
                                        \o Bodies(SubSeq(frames, 1, Len(frames) - 1)))
                     /\ AllOk(e) /\ n = Len(sink.log) =>
                           sink.res = "Ok" /\ n = Cardinality(DOMAIN idx)
                     /\ AllOk(e) /\ n < Cardinality(DOMAIN idx) => n < Len(sink.log)

\* reduce_all has written two frames of an object of unknown type, seed
\* first, and has gone on to another object
C8_Witness ==
    /\ Reduced
    /\ index # None
    /\ Len(sink.log) = 2
    /\ LET ent == index.val[sink.log[1].key]
       IN  /\ ent.ty = rga
           /\ Len(ent.frames) = 2
           /\ ent.frames[1] # ent.frames[2]
           /\ AllOk(sink.log[1])
           /\ Len(sink.log[1].ev) = 2

(***************************************************************************)
(* C9: for an indexed object with two or more frames whose type is lww or  *)
(* set, reduce_all invokes the reducer of that type exactly once, with the *)
(* last frame as seed and the earlier frames in their order as history;    *)
(* it then writes the raw text of the frame the reducer returned, once,    *)
(* and writes nothing when the reducer returned none.                      *)
(***************************************************************************)
C9_ReducerDispatch ==
    Reduced /\ index # None =>
        LET idx == index.val
        IN  \A n \in 1..Len(sink.log) :
               LET e == sink.log[n]
                   frames == idx[e.key].frames
                   ty == idx[e.key].ty
               IN  Len(frames) >= 2 /\ ty \in {lww, set} =>
                     /\ e.ev # <<>>
                     /\ e.ev[1].ev = "reduce"
                     /\ e.ev[1].crdt = (IF ty = lww THEN "LWW" ELSE "Set")
                     /\ e.ev[1].seed = frames[Len(frames)]
                     /\ e.ev[1].history = SubSeq(frames, 1, Len(frames) - 1)
                     /\ IF e.ev[1].state = None THEN Len(e.ev) = 1
                        ELSE /\ Len(e.ev) = 2
                             /\ e.ev[2].ev = "write"
                             /\ e.ev[2].data = e.ev[1].state.val.body

\* the Set reducer has been given a seed and a history of two frames and
\* the frame it returned, which is not the seed, has been written
C9_Witness ==
    /\ Reduced
    /\ sink.res = "Ok"
    /\ index # None
    /\ \E n \in 1..Len(sink.log) :
          LET e == sink.log[n]
          IN  /\ index.val[e.key].ty = set
              /\ Len(e.ev) = 2
              /\ e.ev[1].ev = "reduce"
              /\ Len(e.ev[1].history) = 2
              /\ e.ev[1].history[1] # e.ev[1].history[2]
              /\ e.ev[1].state # None
              /\ e.ev[1].state.val # e.ev[1].seed
              /\ e.ev[2].ok

(***************************************************************************)
(* C10: reduce_all reports failure whenever indexing the batch fails, that *)
(* is whenever two yielded frames conflict on the type of an object, and   *)
(* then nothing has been written and no reducer has been invoked.          *)
(***************************************************************************)
C10_IndexFailureFailsReduce ==
    Reduced /\ (Conflict(Drain(batch)) \/ index = None) =>
        /\ sink.res = "Err(indexing failed)"
        /\ sink.out = <<>>
        /\ sink.log = <<>>

\* reduce_all has failed on a batch with a type conflict
C10_Witness ==
    /\ Reduced
    /\ Conflict(Drain(batch))
    /\ sink.res = "Err(indexing failed)"


(***************************************************************************)
(* Vocabulary of the properties of the iterator                            *)
(***************************************************************************)
\* the text the frames yielded so far hold, in the order of their yield
Consumed == Flatten(Bodies(yielded))

\* the text the body of the batch still holds
Remaining == Str(batch.body)

\* the step is a call of Batch::next that yields a frame
Yields == pc = "iter" /\ pc' = "iter" /\ ret' \notin {NotCalled, None}

(***************************************************************************)
(* C11: a pass of the outer loop of scan that does not return consumes at  *)
(* least one character, from whatever offset of the text it begins; the    *)
(* pending span never starts at offset 0; a call of Batch::next that       *)
(* yields a frame leaves the body strictly shorter; the frames yielded and *)
(* the characters left in the body never number more than the characters   *)
(* of the text, and with the body empty the next call reports no item: so  *)
(* the iteration ends within as many calls as the text has characters.     *)
(***************************************************************************)
C11_Terminates ==
    [][/\ pc = "new" =>
            \A p \in 0..Len(src) :
               LET h == HeaderLoop(src, p, "Initial")
                   a == AtomLoop(src, h.pos)
               IN  h.state # "Initial" =>
                     /\ h.pos > p
                     /\ a.kind = "group" => a.pos >= h.pos
       /\ batch'.next # None => batch'.next.val.start > 0
       /\ Yields => Len(Str(batch'.body)) < Len(Remaining)
       /\ Len(yielded') + Len(Str(batch'.body)) <= Len(src)
       /\ Str(batch'.body) = <<>> => BatchNext(batch').item = None]_vars

\* a text of three frames or more has been drained
C11_Witness ==
    /\ Exhausted
    /\ ~Terminal(src)
    /\ Len(yielded) >= 3
    /\ Remaining = <<>>

(***************************************************************************)
(* C12: whenever the batch has a pending span, the span lies within the    *)
(* body, 0 <= start < end <= length of the body, and the body is exactly   *)
(* the text no frame yielded so far holds, so that the span covers no text *)
(* already consumed.                                                       *)
(***************************************************************************)
C12_SpanInBounds ==
    pc = "iter" /\ batch.next # None =>
        LET p == batch.next.val
        IN  /\ 0 <= p.start
            /\ p.start < p.end
            /\ p.end <= Len(Remaining)
            /\ Remaining = SliceFrom(src, Len(Consumed))
            /\ Consumed = SliceTo(src, Len(Consumed))

\* after a frame was yielded the pending span reaches the end of the body
C12_Witness ==
    /\ pc = "iter"
    /\ yielded # <<>>
    /\ batch.next # None
    /\ batch.next.val.end = Len(Remaining)
    /\ batch.next.val.start > 0

\* the text does not begin with a frame of the grammar, and a well-formed
\* sequence of frames begins further on
LeadingJunk(s) ==
    /\ ~Terminal(s)
    /\ FrameEnd(s, 0) = -1
    /\ \E k \in 1..(Len(s) - 1) : WellFormed(SliceFrom(s, k))

(***************************************************************************)
(* C14 as stated: for a text with leading non-frame text before its first  *)
(* frame the first scan finds a span at a non-zero offset, parse keeps it  *)
(* as the pending span, and the first frame yielded is the text before     *)
(* that span.                                                              *)
(***************************************************************************)
C14_Original ==
    pc = "iter" /\ LeadingJunk(src) =>
        /\ scan(src) # None
        /\ scan(src).val.start # 0
        /\ ret = NotCalled => batch.next = scan(src)
        /\ yielded # <<>> => yielded[1].body = SliceTo(src, scan(src).val.start)

(***************************************************************************)
(* C14 as amended: when the first scan finds its span at a non-zero        *)
(* offset, parse keeps that span as the pending span, the first frame      *)
(* yielded is exactly the text before the span, and the second frame       *)
(* yielded begins with the text of the span; the text before the span then *)
(* consists of the earlier header groups of the text's first frame. A text *)
(* that begins with anything that is not a frame has no span found by the  *)
(* first scan, and is yielded whole as a single frame.                     *)
(***************************************************************************)
C14_LeadingGroups ==
    /\ pc = "iter" /\ scan(src) # None /\ scan(src).val.start # 0 =>
          LET r == scan(src).val
          IN  /\ FrameEnd(src, 0) = r.end
              /\ ret = NotCalled => batch.next = Some(r)
              /\ yielded # <<>> => yielded[1].body = SliceTo(src, r.start)
              /\ Len(yielded) >= 2 =>
                    /\ Len(yielded[2].body) >= r.end - r.start
                    /\ SliceTo(yielded[2].body, r.end - r.start) =
                          SubSeq(src, r.start + 1, r.end)
              /\ Exhausted => Len(yielded) >= 2
    /\ pc = "iter" /\ LeadingJunk(src) =>
          /\ scan(src) = None
          /\ yielded # <<>> => yielded = <<Frame(src)>>

\* a text whose first span begins after its first character has been
\* drained, and the frame of that span is not the last one
C14_Witness ==
    /\ Exhausted
    /\ scan(src) # None
    /\ scan(src).val.start # 0
    /\ Len(yielded) >= 3
    /\ yielded[1].body = SliceTo(src, scan(src).val.start)

(***************************************************************************)
(* C15 as stated: when the call of Batch::next that recomputes the pending *)
(* span finds no further frame after the consumed span, it leaves the body *)
(* empty, so that the very next call reports no item.                      *)
(***************************************************************************)
C15_Original ==
    [][Yields /\ batch.next # None /\ batch'.next = None =>
          /\ Str(batch'.body) = <<>>
          /\ BatchNext(batch').item = None]_vars

(***************************************************************************)
(* C15 as amended: when the call of Batch::next that recomputes the        *)
(* pending span finds no further frame after the consumed span, the        *)
(* pending span becomes absent and the body keeps everything from the      *)
(* start of the consumed span on, which is not empty; the very next call   *)
(* yields that whole remainder as one frame, the call after it reports no  *)
(* item, and the frames yielded together with the body still hold the      *)
(* whole text: nothing is truncated.                                       *)
(***************************************************************************)
C15_RemainderKept ==
    [][Yields /\ batch.next # None /\ batch'.next = None =>
          /\ Str(batch'.body) = SliceFrom(Remaining, batch.next.val.start)
          /\ Str(batch'.body) # <<>>
          /\ BatchNext(batch').item = Some(Frame(Str(batch'.body)))
          /\ BatchNext(BatchNext(batch').batch).item = None
          /\ Flatten(Bodies(yielded')) \o Str(batch'.body) = src]_vars

\* the last scan found nothing, and the body holds a frame and text after
\* the terminator of that frame
C15_Witness ==
    /\ pc = "iter"
    /\ ret \notin {NotCalled, None}
    /\ yielded # <<>>
    /\ batch.next = None
    /\ Remaining # <<>>
    /\ Remaining[Len(Remaining)] \notin {"!", ";"}
    /\ \E i \in 1..Len(Remaining) : Remaining[i] \in {"!", ";"}

\* the batch after k calls of Batch::next on b
RECURSIVE Advance(_, _)
Advance(b, k) == IF k = 0 THEN b ELSE Advance(BatchNext(b).batch, k - 1)

\* the frames the first k calls of Batch::next on b yield, k being no more
\* than the number of frames b yields
RECURSIVE Take(_, _)
Take(b, k) ==
    IF k = 0 THEN <<>>
    ELSE <<BatchNext(b).item.val>> \o Take(BatchNext(b).batch, k - 1)

(***************************************************************************)
(* C16: a batch over a borrowed text and a batch over an owned copy of the *)
(* same text proceed in lock-step: after the same number of calls of       *)
(* Batch::next they have yielded the same frames, hold the same body text  *)
(* and the same pending span, and their next call returns the same item;   *)
(* the borrowed body stays a view of the text and the owned body an owned  *)
(* string until the final clear.                                           *)
(***************************************************************************)
C16_LockStep ==
    pc = "iter" /\ cow = "Borrowed" =>
        LET k == Len(yielded)
            o == Advance(parse(src, "Owned"), k)
        IN  /\ Str(o.body) = Remaining
            /\ o.next = batch.next
            /\ BatchNext(o).item = BatchNext(batch).item
            /\ \A j \in 0..k : Advance(parse(src, "Owned"), j).body.cow = "Owned"
            /\ Remaining # <<>> => batch.body.cow = "Borrowed"
            /\ Take(parse(src, "Owned"), k) = yielded

\* a borrowed batch has yielded two frames and has a pending span
C16_Witness ==
    /\ pc = "iter"
    /\ cow = "Borrowed"
    /\ Len(yielded) >= 2
    /\ batch.next # None

(***************************************************************************)
(* C17: a failed write is the last thing reduce_all does: no write, no     *)
(* reducer and no object follows it in the log, reduce_all returns the     *)
(* write's failure exactly when a write failed, and it returns success     *)
(* only after every object of the index has been processed.                *)
(***************************************************************************)
C17_WriteFailureStops ==
    Reduced /\ index # None =>
        LET evs == LogEvents(sink.log)
            Failed(i) == evs[i].ev = "write" /\ ~evs[i].ok
        IN  /\ \A i \in 1..Len(evs) : Failed(i) => i = Len(evs)
            /\ sink.res = "Err(write)" <=> (evs # <<>> /\ Failed(Len(evs)))
            /\ sink.res \in {"Ok", "Err(write)"}
            /\ sink.res = "Ok" => Len(sink.log) = Cardinality(DOMAIN index.val)
            /\ sink.res = "Err(write)" =>
                  /\ sink.log # <<>>
                  /\ \A n \in 1..(Len(sink.log) - 1) : AllOk(sink.log[n])

\* a write failed after one that succeeded, with an object of the index
\* left unprocessed
C17_Witness ==
    /\ Reduced
    /\ index # None
    /\ sink.res = "Err(write)"
    /\ sink.out # <<>>
    /\ Len(sink.log) < Cardinality(DOMAIN index.val)

(***************************************************************************)
(* C20: for a non-empty text that does not begin with ".", every frame     *)
(* yielded is non-empty, the frames yielded so far are consecutive slices  *)
(* of the text from its beginning, followed without gap or overlap by the  *)
(* body, and once the iteration has ended the frames concatenated in the   *)
(* order of their yield are the text exactly, text after the last          *)
(* terminator included.                                                    *)
(***************************************************************************)
C20_Partition ==
    pc = "iter" /\ ~Terminal(src) =>
        /\ \A i \in 1..Len(yielded) : yielded[i].body # <<>>
        /\ Consumed \o Remaining = src
        /\ Exhausted => Consumed = src

\* a text that ends with the sentinel has been drained in several frames
C20_Witness ==
    /\ Exhausted
    /\ ~Terminal(src)
    /\ src[Len(src)] = "."
    /\ Len(yielded) >= 2
    /\ Consumed = src
    /\ yielded[Len(yielded)].body[Len(yielded[Len(yielded)].body)] = "."

(***************************************************************************)
(* Vocabulary of the properties of scan                                    *)
(***************************************************************************)
\* the offset of the first header marker of s
FirstMarker(s) ==
    CHOOSE i \in 0..(Len(s) - 1) :
       /\ s[i + 1] \in Markers
       /\ \A j \in 0..(i - 1) : s[j + 1] \notin Markers

\* the call of scan that is followed has returned
ScanDone == scanner.phase = "done"

\* the character scan looks at
Cur == At(src, scanner.pos)

Sigils == {"=", "^", ">", "'"}
Terminators == {"!", ";"}

(***************************************************************************)
(* C13 as stated: a range returned by scan ends just after the first frame *)
(* terminator reached in the atom phase and begins no later than the first *)
(* header marker of the text, so that every header group of the frame lies *)
(* inside the range.                                                       *)
(***************************************************************************)
C13_Original ==
    ScanDone /\ scanner.ret # None =>
        /\ scanner.ret.val.end = FrameEnd(src, 0)
        /\ scanner.ret.val.start <= FirstMarker(src)

(***************************************************************************)
(* C13 as amended: a range returned by scan ends just after the first      *)
(* frame terminator reached in the atom phase and begins where the last    *)
(* pass of the outer loop began, which is where the last header group      *)
(* before that terminator begins, whitespace before its first marker       *)
(* included: the range holds that one header group and its atoms, and the  *)
(* header groups of the frame before a comma, a "?" or an adjacent header  *)
(* marker lie before the range. The range is the one the operator scan     *)
(* computes.                                                               *)
(***************************************************************************)
C13_LastGroup ==
    ScanDone =>
        /\ scanner.ret = scan(src)
        /\ scanner.ret # None =>
              LET r == scanner.ret.val
                  h == HeaderLoop(src, r.start, "Initial")
              IN  /\ r.end = FrameEnd(src, 0)
                  /\ src[r.end] \in Terminators
                  /\ r.start = scanner.start
                  /\ 0 <= r.start /\ r.start < r.end /\ r.end <= Len(src)
                  /\ h.state # "Initial"
                  /\ AtomLoop(src, h.pos) = [kind |-> "ret", pos |-> r.end - 1]
                  /\ r.start > 0 =>
                        /\ FirstMarker(src) < r.start
                        /\ HeaderLoop(src, 0, "Initial").state # "Initial"

\* scan has returned a range that begins after a header group and its comma
C13_Witness ==
    /\ ScanDone
    /\ scanner.ret # None
    /\ scanner.ret.val.start > 0
    /\ src[scanner.ret.val.start] = ","
    /\ src[1] \in Markers

(***************************************************************************)
(* C18: in the header phase the state never goes back in rank; a header    *)
(* marker is consumed, and the state set to the marker's, exactly when the *)
(* marker's rank is higher than the state's; whitespace is skipped with    *)
(* the state kept; a marker of the same or a lower rank, any other         *)
(* character and the end of the text end the header phase with nothing     *)
(* consumed; and every pass of the outer loop enters the header phase in   *)
(* state Initial.                                                          *)
(***************************************************************************)
C18_RankOrder ==
    [][/\ scanner.phase = "outer" =>
             scanner'.phase = "spec" /\ scanner'.state = "Initial"
       /\ scanner.phase = "spec" =>
             LET higher == /\ Cur # None
                           /\ Cur.val \in Markers
                           /\ Rank(MarkerState(Cur.val)) > Rank(scanner.state)
                 white == Cur # None /\ is_whitespace(Cur.val)
             IN  /\ Rank(scanner'.state) >= Rank(scanner.state)
                 /\ higher =>
                       /\ scanner'.phase = "spec"
                       /\ scanner'.state = MarkerState(Cur.val)
                       /\ scanner'.pos > scanner.pos
                 /\ white =>
                       /\ scanner'.phase = "spec"
                       /\ scanner'.state = scanner.state
                       /\ scanner'.pos = scanner.pos + 1
                 /\ ~higher /\ ~white =>
                       /\ scanner'.phase \in {"atoms", "done"}
                       /\ scanner'.state = scanner.state
                       /\ scanner'.pos = scanner.pos
                       /\ scanner'.phase = "done" <=> scanner.state = "Initial"]_vars

\* the header phase has ended at a marker of a rank not higher than that
\* of the state, in a header group that is not the first of the frame
C18_Witness ==
    /\ scanner.phase = "atoms"
    /\ scanner.start > 0
    /\ scanner.state = "SawObject"
    /\ Cur # None
    /\ Cur.val \in {"*", "#"}

(***************************************************************************)
(* C19 as stated: in the atom phase whitespace is skipped; a character     *)
(* that is not an atom sigil, a comma, a frame terminator or a header      *)
(* marker makes scan return not-found; so does the end of the text.        *)
(***************************************************************************)
C19_Original ==
    [][scanner.phase = "atoms" =>
          /\ Cur # None /\ is_whitespace(Cur.val) =>
                scanner'.phase = "atoms" /\ scanner'.pos = scanner.pos + 1
          /\ Cur = None => scanner'.phase = "done" /\ scanner'.ret = None
          /\ (/\ Cur # None
              /\ ~is_whitespace(Cur.val)
              /\ Cur.val \notin Sigils \cup {","} \cup Terminators \cup Markers) =>
                scanner'.phase = "done" /\ scanner'.ret = None]_vars

(***************************************************************************)
(* C19 as amended: in the atom phase whitespace is skipped; a "?" is       *)
(* consumed like a comma and goes round to the next header group; a        *)
(* character that is not an atom sigil, a comma, a "?", a frame terminator *)
(* or a header marker makes scan return not-found for the whole call; so   *)
(* does the end of the text.                                               *)
(***************************************************************************)
C19_AtomPhase ==
    [][scanner.phase = "atoms" =>
          /\ Cur # None /\ is_whitespace(Cur.val) =>
                scanner'.phase = "atoms" /\ scanner'.pos = scanner.pos + 1
          /\ Cur = None =>
                scanner'.phase = "done" /\ scanner'.ret = None /\ scan(src) = None
          /\ Cur # None /\ Cur.val \in {"?", ","} =>
                scanner'.phase = "outer" /\ scanner'.pos = scanner.pos + 1
          /\ (/\ Cur # None
              /\ ~is_whitespace(Cur.val)
              /\ Cur.val \notin Sigils \cup {",", "?"} \cup Terminators \cup Markers) =>
                scanner'.phase = "done" /\ scanner'.ret = None /\ scan(src) = None]_vars

\* scan has returned not-found at an unexpected character met in the atom
\* phase of a header group that followed a "?"
C19_Witness ==
    /\ ScanDone
    /\ scanner.ret = None
    /\ scanner.state # "Initial"
    /\ scanner.start > 0
    /\ src[scanner.start] = "?"
    /\ Cur # None
    /\ Cur.val = "$"

=============================================================================
